---- MODULE Spec2Model ----
(***************************************************************************)
(* Model of two leaf components of sandstone:                              *)
(*   - BasePathClass (resource naming: constructor, getName, child)        *)
(*   - SelectorClass (entity selector: Selector(), constructor, toString)  *)
(*                                                                         *)
(* JavaScript strings handled by the naming code are sequences of          *)
(* one-character strings, so that split / join / trim / includes and the   *)
(* regular expressions are computed character by character.  An optional   *)
(* value (`string | undefined`) is a sequence of length 0 (undefined) or 1.*)
(***************************************************************************)
EXTENDS Integers, Sequences, FiniteSets, TLC

VARIABLES
    defaultNamespace,  \* the datapack's default namespace (read-only configuration)
    resourceName,      \* the name the caller creates its resource with
    basePath,          \* the current BasePathClass object: [namespace, directory]
    prefixSegments,    \* history: the non-empty directory segments given so far, in order
    depth,             \* number of child() derivations that produced basePath
    resolved,          \* outcome of the last getName call on basePath, or NoCall
    builtWith,         \* the target and selectorArguments Selector() was called with
    selector,          \* the SelectorClass object: [target, arguments, isSingle]
    calls,             \* number of toString calls made on selector
    emitted,           \* the `result` array of the last toString call
    firstOutput,       \* the string returned by the first toString call
    lastOutput         \* the string returned by the last toString call

nameVars == <<defaultNamespace, resourceName, basePath, prefixSegments, depth, resolved>>

selectorVars == <<builtWith, selector, calls, emitted, firstOutput, lastOutput>>

vars == <<defaultNamespace, resourceName, basePath, prefixSegments, depth, resolved,
          builtWith, selector, calls, emitted, firstOutput, lastOutput>>

----------------------------------------------------------------------------
(* Bounds of the model                                                     *)

MaxNameLen == 3
MaxDirLen == 2
MaxChildren == 1
MaxArgs == 2
MaxCalls == 2

----------------------------------------------------------------------------
(* Strings                                                                 *)

None == <<>>
Some(s) == <<s>>

RECURSIVE SeqsUpTo(_, _)
SeqsUpTo(alphabet, n) ==
    IF n = 0 THEN {<<>>}
    ELSE LET shorter == SeqsUpTo(alphabet, n - 1)
         IN  shorter \cup {Append(s, c) : s \in shorter, c \in alphabet}

Includes(str, c) == \E i \in 1..Len(str) : str[i] = c

IncludesDoubleDot(str) == \E i \in 1..(Len(str) - 1) : str[i] = "." /\ str[i + 1] = "."

RECURSIVE DropLeading(_, _)
DropLeading(str, c) ==
    IF str # <<>> /\ Head(str) = c THEN DropLeading(Tail(str), c) ELSE str

RECURSIVE DropTrailing(_, _)
DropTrailing(str, c) ==
    IF str # <<>> /\ str[Len(str)] = c
    THEN DropTrailing(SubSeq(str, 1, Len(str) - 1), c)
    ELSE str

\* String.prototype.split with a one-character separator: always at least one piece.
RECURSIVE Split(_, _)
Split(str, sep) ==
    IF ~Includes(str, sep) THEN <<str>>
    ELSE LET i == CHOOSE k \in 1..Len(str) :
                      str[k] = sep /\ \A j \in 1..(k - 1) : str[j] # sep
         IN  <<SubSeq(str, 1, i - 1)>> \o Split(SubSeq(str, i + 1, Len(str)), sep)

\* Array.prototype.join with a one-character separator.
RECURSIVE Join(_, _)
Join(parts, sep) ==
    IF parts = <<>> THEN <<>>
    ELSE IF Len(parts) = 1 THEN parts[1]
    ELSE parts[1] \o <<sep>> \o Join(Tail(parts), sep)

\* /^[0-9a-z_-]+$/
NamespaceChars ==
    {"0", "1", "2", "3", "4", "5", "6", "7", "8", "9",
     "a", "b", "c", "d", "e", "f", "g", "h", "i", "j", "k", "l", "m",
     "n", "o", "p", "q", "r", "s", "t", "u", "v", "w", "x", "y", "z",
     "_", "-"}

MatchesNamespace(str) == str # <<>> /\ \A i \in 1..Len(str) : str[i] \in NamespaceChars

\* /^[0-9a-z_\-/.]+$/
PathChars == NamespaceChars \cup {"/", "."}

\* The same expression with the i flag: upper-case letters pass.
MatchesPath_ignoreCase(str) ==
    str # <<>> /\ \A i \in 1..Len(str) : str[i] \in PathChars \cup {"A", "D", "X"}

MatchesPath(str) == str # <<>> /\ \A i \in 1..Len(str) : str[i] \in PathChars

----------------------------------------------------------------------------
(* BasePathClass                                                           *)

\* Remove forward & trailing slashes; undefined stays undefined.
trimSlashes(str) ==
    IF str = None THEN None
    ELSE Some(DropTrailing(DropLeading(str[1], "/"), "/"))

\* Transforms a path to an array of folders; undefined is split as ''.
pathToArray(path) ==
    Split(IF path = None THEN <<>> ELSE path[1], "/")

BasePathClass(namespace, directory) ==
    [namespace |-> namespace, directory |-> trimSlashes(directory)]

\* Datapack.getResourcePath: the name split on its first ':' into an explicit
\* namespace (the default one when there is no ':') and the '/'-separated path.
getResourcePath(name, default) ==
    IF Includes(name, ":")
    THEN LET i == CHOOSE k \in 1..Len(name) :
                      name[k] = ":" /\ \A j \in 1..(k - 1) : name[j] # ":"
         IN  [namespace |-> SubSeq(name, 1, i - 1),
              fullPath  |-> Split(SubSeq(name, i + 1, Len(name)), "/")]
    ELSE [namespace |-> default, fullPath |-> Split(name, "/")]

Thrown(name, error) ==
    [name |-> name, ok |-> FALSE, error |-> error,
     text |-> <<>>, namespace |-> <<>>, path |-> <<>>]

Returned(name, text, namespace, path) ==
    [name |-> name, ok |-> TRUE, error |-> "",
     text |-> text, namespace |-> namespace, path |-> path]

\* The path of getName: [this.directory, ...fullPath].filter(x => x !== undefined).join('/')
joinedPath(this, fullPath) ==
    Join((IF this.directory = None THEN <<>> ELSE <<this.directory[1]>>) \o fullPath, "/")

\* `!this.namespace`: undefined and '' are both falsy.
namespaceIsFalsy(this) == this.namespace = None \/ this.namespace[1] = <<>>

\* A truthiness test in place of `!== undefined`: '' counts as no namespace.
namespaceIsSet_truthy(this) == ~namespaceIsFalsy(this)

\* `this.namespace !== undefined`
namespaceIsSet(this) == this.namespace # None

\* The last test without its first half: the context namespace is forgotten.
returnsBarePath_nameOnly(this, name) == ~Includes(name, ":")

\* `!this.namespace && !name.includes(':')`: directly return the path.
returnsBarePath(this, name) == namespaceIsFalsy(this) /\ ~Includes(name, ":")

\* getName with the path checks moved above the namespace check.
getName_pathChecksFirst(this, name, default) ==
    IF namespaceIsSet(this) /\ Includes(name, ":")
    THEN Thrown(name, "NamespaceUnderBasePath")
    ELSE
      LET resourcePath == getResourcePath(name, default)
          path == joinedPath(this, resourcePath.fullPath)
          namespace == IF this.namespace # None THEN this.namespace[1]
                       ELSE resourcePath.namespace
      IN  IF Len(path) = 0 THEN Thrown(name, "EmptyName")
          ELSE IF ~MatchesPath(path) THEN Thrown(name, "InvalidPath")
          ELSE IF IncludesDoubleDot(path) THEN Thrown(name, "DoubleDot")
          ELSE IF ~MatchesNamespace(namespace) THEN Thrown(name, "InvalidNamespace")
          ELSE IF returnsBarePath(this, name)
               THEN Returned(name, path, namespace, path)
               ELSE Returned(name, namespace \o <<":">> \o path, namespace, path)

\* Validates & crafts the name of a resource.
getName(this, name, default) ==
    IF namespaceIsSet(this) /\ Includes(name, ":")
    THEN Thrown(name, "NamespaceUnderBasePath")
    ELSE
      LET resourcePath == getResourcePath(name, default)
          path == joinedPath(this, resourcePath.fullPath)
          namespace == IF this.namespace # None THEN this.namespace[1]
                       ELSE resourcePath.namespace
      IN  IF ~MatchesNamespace(namespace) THEN Thrown(name, "InvalidNamespace")
          ELSE IF Len(path) = 0 THEN Thrown(name, "EmptyName")
          ELSE IF ~MatchesPath(path) THEN Thrown(name, "InvalidPath")
          ELSE IF IncludesDoubleDot(path) THEN Thrown(name, "DoubleDot")
          ELSE IF returnsBarePath(this, name)
               THEN Returned(name, path, namespace, path)
               ELSE Returned(name, namespace \o <<":">> \o path, namespace, path)

\* Get a child path of the current base path (the namespace is inherited).
child(this, childDirectory) ==
    LET newDirectory == pathToArray(trimSlashes(childDirectory))
        oldDirectory == pathToArray(this.directory)
    IN  BasePathClass(this.namespace, Some(Join(oldDirectory \o newDirectory, "/")))

----------------------------------------------------------------------------
(* Inputs                                                                  *)

NameAlphabet == {"a", "A", ".", "/", ":"}
Names == SeqsUpTo(NameAlphabet, MaxNameLen)

DirAlphabet == {"a", "/"}
Directories == {None} \cup {Some(d) : d \in SeqsUpTo(DirAlphabet, MaxDirLen)}

Namespaces == {None, Some(<<>>), Some(<<"x">>)}

DefaultNamespaces == {<<"d">>, <<"D">>}

NoCall == [name |-> <<>>, ok |-> FALSE, error |-> "NoCall",
           text |-> <<>>, namespace |-> <<>>, path |-> <<>>]

\* The non-empty segments of a directory given by the caller.
NonEmptySegments(directory) ==
    SelectSeq(pathToArray(directory), LAMBDA seg : seg # <<>>)

----------------------------------------------------------------------------
(* Naming state machine                                                    *)

InitNaming ==
    /\ defaultNamespace \in DefaultNamespaces
    /\ resourceName \in Names
    /\ \E namespace \in Namespaces, directory \in Directories :
          /\ basePath = BasePathClass(namespace, directory)
          /\ prefixSegments = NonEmptySegments(directory)
    /\ depth = 0
    /\ resolved = NoCall

Child(directory) ==
    /\ depth < MaxChildren
    /\ basePath' = child(basePath, directory)
    /\ prefixSegments' = prefixSegments \o NonEmptySegments(directory)
    /\ depth' = depth + 1
    /\ resolved' = NoCall
    /\ UNCHANGED <<defaultNamespace, resourceName>>
    /\ UNCHANGED selectorVars

\* A resource is created under basePath: MCFunction, Advancement, Predicate, Tag,
\* LootTable and Recipe all pass their name through getName.
GetName ==
    /\ resolved' = getName(basePath, resourceName, defaultNamespace)
    /\ UNCHANGED <<defaultNamespace, resourceName, basePath, prefixSegments, depth>>
    /\ UNCHANGED selectorVars

----------------------------------------------------------------------------
(* JavaScript values held by a selector's arguments                        *)

Undefined == [t |-> "undefined"]
Null == [t |-> "null"]
Num(n) == [t |-> "number", n |-> n]
Str(s) == [t |-> "string", s |-> s]
Bool(b) == [t |-> "boolean", b |-> b]
Arr(items) == [t |-> "array", items |-> items]
\* An object is the sequence of its entries, in iteration (insertion) order.
Obj(entries) == [t |-> "object", entries |-> entries]
Entry(key, value) == [key |-> key, value |-> value]

RECURSIVE JoinStr(_, _)
JoinStr(parts, sep) ==
    IF parts = <<>> THEN ""
    ELSE IF Len(parts) = 1 THEN parts[1]
    ELSE parts[1] \o sep \o JoinStr(Tail(parts), sep)

\* value.toString() / `${value}`; inside Array.prototype.join, null and
\* undefined elements are rendered as ''.
RECURSIVE jsToString(_)
jsToString(value) ==
    CASE value.t = "number"  -> ToString(value.n)
      [] value.t = "string"  -> value.s
      [] value.t = "boolean" -> IF value.b THEN "true" ELSE "false"
      [] value.t = "array"   ->
            JoinStr([i \in 1..Len(value.items) |->
                        IF value.items[i].t \in {"null", "undefined"} THEN ""
                        ELSE jsToString(value.items[i])], ",")
      [] OTHER               -> "[object Object]"

\* `${x ?? ''}`
orEmpty(value) == IF value.t \in {"null", "undefined"} THEN "" ELSE jsToString(value)

----------------------------------------------------------------------------
(* SelectorClass                                                           *)

parseScore(scores) ==
    "{" \o JoinStr([i \in 1..Len(scores.entries) |->
                LET scoreName == scores.entries[i].key
                    value == scores.entries[i].value
                IN  IF value.t = "array"
                    THEN scoreName \o "=" \o orEmpty(value.items[1]) \o ".."
                                   \o orEmpty(value.items[2])
                    ELSE scoreName \o "=" \o orEmpty(value)], ", ") \o "}"

RECURSIVE parseAdvancements(_)
parseAdvancements(advancements) ==
    "{" \o JoinStr([i \in 1..Len(advancements.entries) |->
                LET advancementName == advancements.entries[i].key
                    value == advancements.entries[i].value
                IN  IF value.t = "boolean"
                    THEN advancementName \o "=" \o jsToString(value)
                    ELSE advancementName \o "=" \o parseAdvancements(value)], ", ") \o "}"

\* Without the Array.isArray test the whole value is one element.
oneOrMany_single(value) == <<value>>

\* `Array.isArray(tag) ? tag : [tag]`
oneOrMany(value) == IF value.t = "array" THEN value.items ELSE <<value>>

\* The modifier of team: true is '!', false is '', a string is itself.
teamRepr(team) ==
    IF team.t = "boolean" THEN (IF team.b THEN "!" ELSE "") ELSE jsToString(team)

\* Tags pushed before scores.
modifierNames_tagFirst == <<"tag", "score", "advancements", "predicate", "team">>

\* The keys of `modifiers`, in the order Object.entries lists them.
modifierNames == <<"score", "advancements", "tag", "predicate", "team">>

\* What modifiers[name](value) pushes onto `result`.
modifierPairs(name, value) ==
    CASE name = "score"        -> <<Entry("score", parseScore(value))>>
      [] name = "advancements" -> <<Entry("advancements", parseAdvancements(value))>>
      [] name = "team"         -> <<Entry("team", teamRepr(value))>>
      [] OTHER                 ->
            [i \in 1..Len(oneOrMany(value)) |-> Entry(name, jsToString(oneOrMany(value)[i]))]

\* args[name]: the value stored under the key, undefined when there is none.
valueOf(args, name) ==
    IF \E i \in 1..Len(args) : args[i].key = name
    THEN args[CHOOSE i \in 1..Len(args) : args[i].key = name].value
    ELSE Undefined

RECURSIVE flatten(_)
flatten(lists) == IF lists = <<>> THEN <<>> ELSE Head(lists) \o flatten(Tail(lists))

\* First loop of toString: each modifier whose key has a defined value runs.
phase1Pairs(args) ==
    flatten([i \in 1..Len(modifierNames) |->
                IF valueOf(args, modifierNames[i]) # Undefined
                THEN modifierPairs(modifierNames[i], valueOf(args, modifierNames[i]))
                ELSE <<>>])

\* The delete forgotten: every key stays in args.
afterPhase1_noDelete(args) == args

\* `delete args[name]` for every modifier that ran.
afterPhase1(args) ==
    SelectSeq(args, LAMBDA e :
        ~(e.value # Undefined /\ \E i \in 1..Len(modifierNames) : modifierNames[i] = e.key))

\* Second loop: every remaining defined value, as key and value.toString().
phase2Pairs(args) ==
    LET defined == SelectSeq(args, LAMBDA e : e.value # Undefined)
    IN  [i \in 1..Len(defined) |-> Entry(defined[i].key, jsToString(defined[i].value))]

\* The `result` array of toString.
resultPairs(arguments) == phase1Pairs(arguments) \o phase2Pairs(afterPhase1(arguments))

\* `args` is this.arguments itself: the deletes reach the selector.
argumentsAfterToString_aliased(arguments) ==
    IF Len(arguments) = 0 THEN arguments ELSE afterPhase1(arguments)

\* `const args = { ...this.arguments }`: the deletes act on a copy, and
\* this.arguments is what it was.
argumentsAfterToString(arguments) == arguments

\* The fast path taken when `result` is empty, not when there are no keys.
toString_fastPathOnNoPairs(this) ==
    IF Len(resultPairs(this.arguments)) = 0 THEN this.target
    ELSE this.target \o "["
           \o JoinStr([i \in 1..Len(resultPairs(this.arguments)) |->
                  resultPairs(this.arguments)[i].key \o "="
                      \o resultPairs(this.arguments)[i].value], ", ")
           \o "]"

toString(this) ==
    IF Len(this.arguments) = 0 THEN this.target
    ELSE this.target \o "["
           \o JoinStr([i \in 1..Len(resultPairs(this.arguments)) |->
                  resultPairs(this.arguments)[i].key \o "="
                      \o resultPairs(this.arguments)[i].value], ", ")
           \o "]"

hasLimit01(arguments) == valueOf(arguments, "limit") \in {Num(0), Num(1)}

hasKey(arguments, name) == \E i \in 1..Len(arguments) : arguments[i].key = name

\* The overload of '@a' taking AnySelectorProperties: limit is optional.
overloadIsSingle_optionalLimit(target, arguments, literal) ==
    CASE target \in {"@s", "@p", "@r"} ->
            literal => (~hasKey(arguments, "limit") /\ ~hasKey(arguments, "type"))
      [] target = "@a" -> literal => ~hasKey(arguments, "type")
      [] target = "@e" -> hasLimit01(arguments)
      [] OTHER -> FALSE

\* The IsSingle parameter of the first overload of Selector() that accepts the
\* call.  A key left out of an overload's properties by Omit refuses an
\* object literal that has it (excess property check) and nothing else; a
\* `limit: 0 | 1` property refuses every object without such a limit.
overloadIsSingle(target, arguments, literal) ==
    CASE target \in {"@s", "@p", "@r"} ->
            literal => (~hasKey(arguments, "limit") /\ ~hasKey(arguments, "type"))
      [] target = "@a" ->
            hasLimit01(arguments) /\ (literal => ~hasKey(arguments, "type"))
      [] target = "@e" -> hasLimit01(arguments)
      [] OTHER -> FALSE

\* Selector(): new SelectorClass(this, target, selectorArguments).  The
\* constructor stores both and checks nothing.
Selector(target, selectorArguments, literal) ==
    [target |-> target, arguments |-> selectorArguments,
     isSingle |-> overloadIsSingle(target, selectorArguments, literal)]

----------------------------------------------------------------------------
(* Selector inputs                                                         *)

Targets == {"@s", "@a", "@e"}

ArgumentValues ==
    [score |-> {Obj(<<Entry("kills", Num(1)), Entry("deaths", Arr(<<Null, Num(5)>>))>>),
                Undefined},
     advancements |->
               {Obj(<<Entry("story/root", Bool(TRUE)),
                      Entry("story/iron", Obj(<<Entry("has_iron", Bool(FALSE))>>))>>)},
     tag |-> {Str("a"), Arr(<<Str("b"), Str("a")>>), Arr(<<>>), Undefined},
     predicate |-> {Str("p"), Arr(<<Str("q"), Str("p")>>)},
     team |-> {Bool(TRUE), Bool(FALSE), Str("red")},
     distance |-> {Num(3), Arr(<<Num(2), Null>>), Arr(<<Null, Num(5)>>),
                   Arr(<<Num(2), Num(5)>>)},
     level |-> {Arr(<<Num(1), Num(2)>>)},
     type |-> {Str("minecraft:cow"),
               Arr(<<Str("!minecraft:cow"), Str("!minecraft:skeleton")>>)},
     limit |-> {Num(0), Num(1), Num(2)},
     sort |-> {Str("nearest")}]

ArgumentKeys == DOMAIN ArgumentValues

\* Objects of at most n keys: no key twice, every value of its key's type.
RECURSIVE ArgumentsUpTo(_)
ArgumentsUpTo(n) ==
    IF n = 0 THEN {<<>>}
    ELSE LET shorter == ArgumentsUpTo(n - 1)
         IN  shorter \cup
             UNION {UNION {{Append(a, Entry(k, v)) : v \in ArgumentValues[k]} :
                              k \in {x \in ArgumentKeys : ~hasKey(a, x)}} :
                       a \in shorter}

SelectorArguments == ArgumentsUpTo(MaxArgs)

----------------------------------------------------------------------------
(* Selector state machine                                                  *)

InitSelector ==
    /\ \E target \in Targets, selectorArguments \in SelectorArguments,
          literal \in BOOLEAN :
          /\ builtWith = [target |-> target, arguments |-> selectorArguments,
                          literal |-> literal]
          /\ selector = Selector(target, selectorArguments, literal)
    /\ calls = 0
    /\ emitted = <<>>
    /\ firstOutput = ""
    /\ lastOutput = ""

\* One call of toString on the selector (directly, or through toJSON,
\* _toChatComponent or listScores, which return or pass on this.toString()).
CallToString ==
    /\ calls < MaxCalls
    /\ calls' = calls + 1
    /\ emitted' = IF Len(selector.arguments) = 0 THEN <<>>
                  ELSE resultPairs(selector.arguments)
    /\ lastOutput' = toString(selector)
    /\ firstOutput' = IF calls = 0 THEN toString(selector) ELSE firstOutput
    /\ selector' = [selector EXCEPT !.arguments = argumentsAfterToString(@)]
    /\ UNCHANGED builtWith
    /\ UNCHANGED nameVars

----------------------------------------------------------------------------
(* Specifications                                                          *)

NamingIdle ==
    /\ defaultNamespace = <<"d">>
    /\ resourceName = <<>>
    /\ basePath = BasePathClass(None, None)
    /\ prefixSegments = <<>>
    /\ depth = 0
    /\ resolved = NoCall

SelectorIdle ==
    /\ builtWith = [target |-> "@s", arguments |-> <<>>, literal |-> TRUE]
    /\ selector = Selector("@s", <<>>, TRUE)
    /\ calls = 0
    /\ emitted = <<>>
    /\ firstOutput = ""
    /\ lastOutput = ""

Init == InitNaming /\ SelectorIdle

Next ==
    \/ \E directory \in Directories : Child(directory)
    \/ GetName

Spec == Init /\ [][Next]_vars

SelectorInit == InitSelector /\ NamingIdle

SelectorNext == CallToString

SelectorSpec == SelectorInit /\ [][SelectorNext]_vars

----------------------------------------------------------------------------
(* Properties of getName and child                                         *)

called == resolved.error # "NoCall"

\* The text before / after the first ':' of a string that has one.
BeforeColon(str) == Split(str, ":")[1]
AfterColon(str) == SubSeq(str, Len(BeforeColon(str)) + 2, Len(str))

\* The path part of a name or of an identifier's text.
PathPart(str) == IF Includes(str, ":") THEN AfterColon(str) ELSE str

HasEmptySegment(path) == \E i \in 1..Len(Split(path, "/")) : Split(path, "/")[i] = <<>>

\* C1: under a context whose namespace is set, a name containing ':' makes
\* getName fail with NamespaceUnderBasePath, whatever else is wrong with the
\* name or the directory, and no identifier is returned.
C1_NamespaceUnderBasePath ==
    (called /\ basePath.namespace # None /\ Includes(resourceName, ":"))
        => /\ ~resolved.ok
           /\ resolved.error = "NamespaceUnderBasePath"
           /\ resolved.text = <<>>

\* The case of C1 with a name that also breaks the path rules and a namespace
\* that is itself invalid.
C1_Witness ==
    /\ called
    /\ basePath.namespace = Some(<<>>)
    /\ resourceName = <<"A", ":", ".">>
    /\ resolved.error = "NamespaceUnderBasePath"

\* C2: getName either fails (and returns no text), or returns a text whose
\* path part is non-empty, matches ^[0-9a-z_\-/.]+$ and has no '..', and whose
\* namespace part, when the text is 'namespace:path', is non-empty and matches
\* ^[0-9a-z_-]+$.
C2_NoPartialSuccess ==
    called =>
        IF resolved.ok
        THEN /\ PathPart(resolved.text) # <<>>
             /\ \A i \in 1..Len(PathPart(resolved.text)) :
                    PathPart(resolved.text)[i] \in PathChars
             /\ ~IncludesDoubleDot(PathPart(resolved.text))
             /\ Includes(resolved.text, ":") =>
                    /\ BeforeColon(resolved.text) # <<>>
                    /\ \A i \in 1..Len(BeforeColon(resolved.text)) :
                           BeforeColon(resolved.text)[i] \in NamespaceChars
        ELSE resolved.text = <<>> /\ resolved.error # ""

\* A successful 'namespace:path' result, next to names that were refused.
C2_Witness ==
    /\ called /\ resolved.ok
    /\ basePath.directory = Some(<<"a">>)
    /\ resolved.text = <<"a", ":", "a", "/", "a">>

\* C3: a successful getName returns the bare path exactly when the context has
\* no namespace and the name has no ':'; otherwise it returns
\* 'namespace:path' with the context namespace if set, else the name's own
\* namespace.  The default namespace is never written.
C3_BareOrQualified ==
    (called /\ resolved.ok) =>
        IF basePath.namespace = None /\ ~Includes(resourceName, ":")
        THEN /\ resolved.text = resolved.path
             /\ ~Includes(resolved.text, ":")
        ELSE LET namespace == IF basePath.namespace # None THEN basePath.namespace[1]
                              ELSE BeforeColon(resourceName)
             IN  resolved.text = namespace \o <<":">> \o resolved.path

\* The three successful shapes: bare, context namespace, explicit namespace.
C3_Witness ==
    /\ called /\ resolved.ok
    /\ basePath.namespace = Some(<<"x">>)
    /\ basePath.directory = Some(<<"a">>)
    /\ resolved.text = <<"x", ":", "a", "/", "a", ".", "a">>

\* C4: after any chain of child derivations the directory prefix has no empty
\* segment, and the path of a resolved name (itself without empty segments)
\* is the prefixes and the name joined by single '/', with no empty segment.
C4_PrefixesSlashJoined ==
    (called /\ resolved.ok /\ depth > 0 /\ ~HasEmptySegment(PathPart(resourceName))) =>
        /\ basePath.directory # None =>
               \A i \in 1..Len(pathToArray(basePath.directory)) :
                   pathToArray(basePath.directory)[i] # <<>>
        /\ resolved.path =
               Join(prefixSegments \o Split(PathPart(resourceName), "/"), "/")
        /\ ~HasEmptySegment(resolved.path)

\* The namespace a name is checked against: the context's if it has one, else
\* the name's own, else the default one.
FinalNamespace ==
    IF basePath.namespace # None THEN basePath.namespace[1]
    ELSE IF Includes(resourceName, ":") THEN BeforeColon(resourceName)
    ELSE defaultNamespace

\* The path a name is checked as: the context directory, when it has one,
\* and the name's path part, joined by '/'.
FinalPath ==
    IF basePath.directory = None THEN PathPart(resourceName)
    ELSE basePath.directory[1] \o <<"/">> \o PathPart(resourceName)

\* The rules a name breaks, each on its own.
BreaksNamespaceUnderBasePath == basePath.namespace # None /\ Includes(resourceName, ":")
BreaksInvalidNamespace ==
    FinalNamespace = <<>> \/ \E i \in 1..Len(FinalNamespace) : FinalNamespace[i] \notin NamespaceChars
BreaksEmptyName == FinalPath = <<>>
BreaksInvalidPath == \E i \in 1..Len(FinalPath) : FinalPath[i] \notin PathChars
BreaksDoubleDot == IncludesDoubleDot(FinalPath)

\* C11: getName reports the first broken rule in the order
\* NamespaceUnderBasePath, InvalidNamespace, EmptyName, InvalidPath, DoubleDot
\* (an invalid namespace with an empty path is InvalidNamespace, an upper-case
\* letter with '..' is InvalidPath), succeeds only when none is broken, and
\* checks the default namespace too, even when it would return the bare path.
C11_FirstFailingCheck ==
    called =>
        resolved.error =
            CASE BreaksNamespaceUnderBasePath -> "NamespaceUnderBasePath"
              [] ~BreaksNamespaceUnderBasePath /\ BreaksInvalidNamespace -> "InvalidNamespace"
              [] ~BreaksNamespaceUnderBasePath /\ ~BreaksInvalidNamespace
                   /\ BreaksEmptyName -> "EmptyName"
              [] ~BreaksNamespaceUnderBasePath /\ ~BreaksInvalidNamespace
                   /\ ~BreaksEmptyName /\ BreaksInvalidPath -> "InvalidPath"
              [] ~BreaksNamespaceUnderBasePath /\ ~BreaksInvalidNamespace
                   /\ ~BreaksEmptyName /\ ~BreaksInvalidPath /\ BreaksDoubleDot -> "DoubleDot"
              [] OTHER -> ""

\* An invalid default namespace with a path that breaks two rules and a name
\* that would have been returned bare: InvalidNamespace is reported.
C11_Witness ==
    /\ called
    /\ basePath.namespace = None
    /\ defaultNamespace = <<"D">>
    /\ resourceName = <<"A", ".", ".">>
    /\ BreaksInvalidPath /\ BreaksDoubleDot
    /\ resolved.error = "InvalidNamespace"

----------------------------------------------------------------------------
(* Properties of Selector and toString                                     *)

encoded == calls > 0

\* The pairs of `emitted` whose key is `name`, in order.
emittedFor(name) == SelectSeq(emitted, LAMBDA e : e.key = name)

\* Range formatting: a number is itself, [min, max] is 'min..max' with a null
\* bound left out.
FormatRange(value) ==
    IF value.t = "array"
    THEN orEmpty(value.items[1]) \o ".." \o orEmpty(value.items[2])
    ELSE jsToString(value)

RangeKeys == {"distance", "level"}

\* The score group with every range written by the range formatting.
FormatScore(scores) ==
    "{" \o JoinStr([i \in 1..Len(scores.entries) |->
                scores.entries[i].key \o "=" \o FormatRange(scores.entries[i].value)],
             ", ") \o "}"

\* C5: every range-valued filter (distance, level, rotations, score ranges)
\* is written with the range formatting, a [min, max] bound as 'min..max'
\* with a null bound left out; '@e' with distance [2, null] encodes to
\* '@e[distance=2..]'.
C5_RangeFormatting ==
    encoded =>
        /\ valueOf(builtWith.arguments, "score") # Undefined =>
              emittedFor("score") =
                  <<Entry("score", FormatScore(valueOf(builtWith.arguments, "score")))>>
        /\ \A name \in RangeKeys :
              hasKey(builtWith.arguments, name) =>
                  emittedFor(name) =
                      <<Entry(name, FormatRange(valueOf(builtWith.arguments, name)))>>
        /\ (builtWith.target = "@e"
              /\ builtWith.arguments = <<Entry("distance", Arr(<<Num(2), Null>>))>>)
                  => lastOutput = "@e[distance=2..]"

\* C6: a list of entity types is written as one 'type=value' pair per
\* element, in order; a single type as one pair.
C6_TypePerElement ==
    encoded =>
        /\ hasKey(builtWith.arguments, "type") =>
              emittedFor("type") =
                  [i \in 1..Len(oneOrMany(valueOf(builtWith.arguments, "type"))) |->
                      Entry("type",
                            jsToString(oneOrMany(valueOf(builtWith.arguments, "type"))[i]))]
        /\ (builtWith.target = "@e"
              /\ builtWith.arguments =
                   <<Entry("type", Arr(<<Str("!minecraft:cow"),
                                         Str("!minecraft:skeleton")>>))>>)
                  => lastOutput = "@e[type=!minecraft:cow, type=!minecraft:skeleton]"

\* The strings a tag or predicate value stands for: none when absent, the
\* value itself, or the elements of the list.
ExpectedValues(value) ==
    CASE value.t = "undefined" -> <<>>
      [] value.t = "string"    -> <<value.s>>
      [] value.t = "array"     -> [i \in 1..Len(value.items) |-> value.items[i].s]

\* C7: for tag and predicate, a single value gives exactly one 'key=value'
\* pair, a list of n values gives exactly n pairs in the order of the list,
\* and an absent value gives no pair.
C7_OnePairPerElement ==
    encoded =>
        /\ \A name \in {"tag", "predicate"} :
              emittedFor(name) =
                  [i \in 1..Len(ExpectedValues(valueOf(builtWith.arguments, name))) |->
                      Entry(name, ExpectedValues(valueOf(builtWith.arguments, name))[i])]
        /\ (builtWith.target = "@e"
              /\ builtWith.arguments = <<Entry("tag", Arr(<<Str("b"), Str("a")>>))>>)
                  => lastOutput = "@e[tag=b, tag=a]"

\* A list of two tags next to a single predicate, both encoded.
C7_Witness ==
    /\ encoded
    /\ builtWith.arguments = <<Entry("predicate", Str("p")),
                               Entry("tag", Arr(<<Str("b"), Str("a")>>))>>
    /\ lastOutput = "@e[tag=b, tag=a, predicate=p]"

SpecialKeys == {"score", "advancements", "tag", "predicate", "team"}

SpecialRank(key) ==
    CASE key = "score" -> 1 [] key = "advancements" -> 2 [] key = "tag" -> 3
      [] key = "predicate" -> 4 [] key = "team" -> 5

\* The keys of the arguments that are not special and have a value, in the
\* iteration order of the arguments.
PlainKeys(arguments) ==
    LET plain == SelectSeq(arguments,
                     LAMBDA e : e.key \notin SpecialKeys /\ e.value # Undefined)
    IN  [i \in 1..Len(plain) |-> plain[i].key]

\* C8: the pairs of the special keys come first, in the order score,
\* advancements, tag, predicate, team whatever the order of the arguments;
\* then the remaining keys in iteration order; no special key is written
\* again among the remaining ones.
C8_SpecialKeysFirst ==
    (encoded /\ Len(builtWith.arguments) > 0) =>
        \E k \in 0..Len(emitted) :
            /\ \A i \in 1..k : emitted[i].key \in SpecialKeys
            /\ \A i, j \in 1..k :
                  i < j => SpecialRank(emitted[i].key) <= SpecialRank(emitted[j].key)
            /\ [i \in 1..(Len(emitted) - k) |-> emitted[k + i].key]
                  = PlainKeys(builtWith.arguments)
            /\ \A name \in {"score", "advancements", "team"} :
                  Len(emittedFor(name)) <= 1

\* Special keys given last and in reverse order, written first and in order.
C8_Witness ==
    /\ encoded
    /\ builtWith.arguments = <<Entry("limit", Num(1)), Entry("team", Bool(TRUE))>>
    /\ lastOutput = "@e[team=!, limit=1]"

C10_EncodeIdempotent ==
    /\ selector.target = builtWith.target
    /\ selector.arguments = builtWith.arguments
    /\ encoded => lastOutput = firstOutput

\* Two calls on a selector that has special keys.
C10_Witness ==
    /\ calls = 2
    /\ hasKey(selector.arguments, "tag") /\ hasKey(selector.arguments, "score")
    /\ valueOf(selector.arguments, "tag") = Str("a")
    /\ valueOf(selector.arguments, "score") # Undefined
    /\ lastOutput = firstOutput
    /\ lastOutput = "@e[score={kills=1, deaths=..5}, tag=a]"

\* C12 as stated: the output never has an empty bracket group; a selector
\* whose arguments have keys but emit no pair encodes to exactly its target.
C12_NoEmptyBrackets ==
    encoded =>
        /\ lastOutput # builtWith.target \o "[]"
        /\ emitted = <<>> => lastOutput = builtWith.target

\* C12 amended: the output is exactly the target only when the arguments
\* have no key at all; arguments with keys that emit no pair (every value
\* absent, or an empty tag / predicate list) encode to the target followed
\* by '[]'; whenever a pair is emitted the brackets are not empty.
C12_EmptyBracketsWithoutPairs ==
    encoded =>
        /\ Len(builtWith.arguments) = 0 => lastOutput = builtWith.target
        /\ (Len(builtWith.arguments) > 0 /\ emitted = <<>>)
              => lastOutput = builtWith.target \o "[]"
        /\ emitted # <<>> =>
              /\ lastOutput # builtWith.target \o "[]"
              /\ lastOutput # builtWith.target

\* An empty tag list next to an absent score: keys, but no pair.
C12_Witness ==
    /\ encoded
    /\ builtWith.arguments = <<Entry("tag", Arr(<<>>)), Entry("score", Undefined)>>
    /\ emitted = <<>>
    /\ lastOutput = "@e[]"

====
